---- MODULE Spec2Model ----
(***************************************************************************)
(* rss_r_deploy: one run of the deployment tool (src/src/main.rs,          *)
(* src/src/config.rs).  The state is the position of main, the workflow    *)
(* step it is at, the position inside execute_command / upload_file, the   *)
(* ssh channel of the call in progress, the remote side of that channel    *)
(* and the SIGINT watcher.  `issued` and `chan_log` are history variables: *)
(* the remote operations requested so far and the channel calls of the     *)
(* command in progress.                                                    *)
(***************************************************************************)
EXTENDS Integers, Sequences, FiniteSets, TLC

VARIABLES
    args_production,   \* Args.production (main.rs:24)
    config_file,       \* what Config::load finds: "absent", "unparsable", "ok"
    config,            \* the Config record (config.rs:14-35)
    key_file_exists,   \* environment: whether a private key file is on disk
    pc,                \* position of main
    step,              \* index of the workflow step in progress
    tcp_connects,      \* number of TcpStream::connect calls made
    sessions,          \* number of Session values handed to the workflow
    issued,            \* history: remote commands and uploads requested
    ec_pc,             \* position inside execute_command
    up_pc,             \* position inside upload_file
    watcher,           \* Signals of the call: "none", "idle", "pending"
    handler_installed, \* a SIGINT handler has replaced the default action
    channel,           \* local side of the channel: "none","open","eof_sent","closed"
    avail,             \* remote output received and not yet read (bytes)
    bursts,            \* number of output bursts the remote command made
    remote_eof,        \* the remote side signalled end-of-output
    remote_closed,     \* the remote side closed the channel
    remote_exit,       \* exit status the channel holds (0 when none was sent)
    amount,            \* bytes returned by the last channel.read
    written,           \* bytes written to local stdout by the call in progress
    chan_log,          \* history: channel calls of the latest call
    buf,               \* execute_command: the 32-byte array `bytes`
    nread,             \* bytes of the command's output read so far
    stdout,            \* bytes written to local stdout by the latest command
    flushed,           \* how many of them were flushed
    transfer,          \* upload_file: the local bytes and the file-copy request
    open_channels,     \* channels opened on the session and not yet dropped
    prev_cancelled,    \* history: the call before this one detected an interrupt
    results,           \* history: what each finished workflow call returned
    error,             \* the Err main ends with, or NoError
    exit_code          \* process exit code, -1 while running

vars == << args_production, config_file, config, key_file_exists, pc, step,
           tcp_connects, sessions, issued, ec_pc, up_pc, watcher,
           handler_installed, channel, avail, bursts, remote_eof,
           remote_closed, remote_exit, amount, written, chan_log,
           buf, nread, stdout, flushed, transfer, open_channels,
           prev_cancelled, results, error, exit_code >>

-----------------------------------------------------------------------------
(* Bounds of the model *)

\* Output bursts one remote command may make before it exits or hangs.
MaxBursts == 2

\* Sizes of one burst of remote output: less than, and more than, one chunk.
BurstSizes == {1, 33}

\* Sizes of a local file: empty, one byte, and the largest file of the model.
MaxFileSize == 3
FileSizes == {0, 1, MaxFileSize}

\* Exit statuses a remote command may report.
ExitCodes == {0, 1, 7}

-----------------------------------------------------------------------------
(* Program constants *)

REMOTE_TEMP_DIR == << "/tmp" >>

\* let mut bytes = [0; 32];
ChunkSize == 32

\* Config::default().target_ip
DefaultPort == 22

\* session.scp_send(.., 0o644, ..)
ScpMode == 420

-----------------------------------------------------------------------------
(* Paths.  A path is the sequence of its components; the empty path is <<>>. *)

None == "None"

EmptyPath == << >>

\* Utf8PathBuf::push
Push(path, component) == Append(path, component)

\* Paths that exist on the local disk when the run starts.
ExistingPaths == { << "pkg.zip" >>, << ".." >>, << "app.ron" >> }

\* Utf8Path::exists
Exists(path) == path \in ExistingPaths

\* Utf8Path::file_name: None for the empty path and for a path ending in ..
FileName(path) ==
    IF path = EmptyPath \/ path[Len(path)] = ".." THEN None ELSE path[Len(path)]

\* String::is_empty
IsEmpty(s) == s = ""

\* Config::host_and_port
host_and_port(c) == << c.target_host, ":", c.target_ip >>

Configs ==
    [ target_host : {"", "host"},
      target_ip : {DefaultPort},
      username : {"", "deploy"},
      rss_r_zip : {EmptyPath, << "missing.zip" >>, << "pkg.zip" >>, << ".." >>},
      rss_r_target_test_dir : {EmptyPath, << "/srv/test" >>},
      rss_r_test_config_file : {<< "missing.ron" >>, << "app.ron" >>},
      rss_r_production_directory : {EmptyPath, << "/opt/rss_r" >>},
      rss_r_production_user : {"", "rss"} ]

-----------------------------------------------------------------------------
(* verify_config *)

\* verify_config without its check that the package zip exists
verify_config_NoZipCheck(c) ==
    IF IsEmpty(c.target_host) THEN FALSE
    ELSE IF IsEmpty(c.username) THEN FALSE
    ELSE IF c.rss_r_target_test_dir = EmptyPath THEN FALSE
    ELSE IF ~Exists(c.rss_r_test_config_file) THEN FALSE
    ELSE IF c.rss_r_production_directory = EmptyPath THEN FALSE
    ELSE IF IsEmpty(c.rss_r_production_user) THEN FALSE
    ELSE TRUE

verify_config(c) ==
    IF IsEmpty(c.target_host) THEN FALSE
    ELSE IF IsEmpty(c.username) THEN FALSE
    ELSE IF ~Exists(c.rss_r_zip) THEN FALSE
    ELSE IF c.rss_r_target_test_dir = EmptyPath THEN FALSE
    ELSE IF ~Exists(c.rss_r_test_config_file) THEN FALSE
    ELSE IF c.rss_r_production_directory = EmptyPath THEN FALSE
    ELSE IF IsEmpty(c.rss_r_production_user) THEN FALSE
    ELSE TRUE

-----------------------------------------------------------------------------
(* The two workflows, as the sequence of calls each makes on the session. *)

\* A call made without with_context
NoContext == << >>

\* The exit status read by a call that read none, and by one that read `code`
NoStatus == << >>
Status(code) == << code >>

NoError == [ kind |-> "none", at |-> None, command |-> << >>, exit_code |-> 0,
             context |-> NoContext ]

\* format!: the literal pieces and the arguments, in order
Format(pieces) == pieces

Command(text, ctx) ==
    [ kind |-> "command", command |-> text, context |-> ctx,
      local |-> EmptyPath, remote |-> EmptyPath ]

Upload(kind, local, remote) ==
    [ kind |-> kind, command |-> << >>, context |-> NoContext,
      local |-> local, remote |-> remote ]

\* upload_zip_to_tmp_dir: REMOTE_TEMP_DIR joined with the zip's file name
remote_zip_path(c) == Push(REMOTE_TEMP_DIR, FileName(c.rss_r_zip))

rss_r_exec_in_zip == << "rss_r/rss_r" >>
static_dir_in_zip == << "rss_r/static/" >>

target_static_dir(c) == Push(c.rss_r_production_directory, "static")
target_rss_exe(c) == Push(c.rss_r_production_directory, "rss_r")

cmd_stop_service == Format(<< "sudo systemctl stop rss_r" >>)
cmd_check_exec(c) ==
    Format(<< "unzip -l '", remote_zip_path(c), "' | grep -q '", rss_r_exec_in_zip, "'" >>)
cmd_check_static(c) ==
    Format(<< "unzip -l '", remote_zip_path(c), "' | grep -q '", static_dir_in_zip, "'" >>)
cmd_rm_static(c) == Format(<< "sudo rm -r '", target_static_dir(c), "'" >>)
cmd_extract_exec(c) ==
    Format(<< "sudo unzip -j -o '", remote_zip_path(c), "' '", rss_r_exec_in_zip,
              "' -d ", c.rss_r_production_directory >>)
cmd_extract_static(c) ==
    Format(<< "sudo unzip -j -o '", remote_zip_path(c), "' '", static_dir_in_zip,
              "*' -d ", target_static_dir(c) >>)
cmd_chown_exec(c) ==
    Format(<< "sudo chown '", c.rss_r_production_user, "':'", c.rss_r_production_user,
              "' '", target_rss_exe(c), "'" >>)
cmd_chown_static(c) ==
    Format(<< "sudo chown -R '", c.rss_r_production_user, "':'", c.rss_r_production_user,
              "' '", target_static_dir(c), "'" >>)
cmd_start_service == Format(<< "sudo systemctl start rss_r" >>)
cmd_status_service == Format(<< "systemctl status rss_r" >>)

\* deploy_production removing the static directory before it has checked
\* the archive
deploy_production_RmBeforeChecks(c) ==
    << Command(cmd_stop_service, NoContext),
       Upload("upload_zip", c.rss_r_zip, EmptyPath),
       Command(cmd_rm_static(c), NoContext),
       Command(cmd_check_exec(c), << "Zip does not contain ", rss_r_exec_in_zip >>),
       Command(cmd_check_static(c), << "Zip does not contain ", static_dir_in_zip >>),
       Command(cmd_extract_exec(c), NoContext),
       Command(cmd_extract_static(c), NoContext),
       Command(cmd_chown_exec(c), NoContext),
       Command(cmd_chown_static(c), NoContext),
       Command(cmd_start_service, NoContext),
       Command(cmd_status_service, NoContext) >>

\* deploy_production starting the service before the second chown
deploy_production_StartBeforeChown(c) ==
    << Command(cmd_stop_service, NoContext),
       Upload("upload_zip", c.rss_r_zip, EmptyPath),
       Command(cmd_check_exec(c), << "Zip does not contain ", rss_r_exec_in_zip >>),
       Command(cmd_check_static(c), << "Zip does not contain ", static_dir_in_zip >>),
       Command(cmd_rm_static(c), NoContext),
       Command(cmd_extract_exec(c), NoContext),
       Command(cmd_extract_static(c), NoContext),
       Command(cmd_chown_exec(c), NoContext),
       Command(cmd_start_service, NoContext),
       Command(cmd_chown_static(c), NoContext),
       Command(cmd_status_service, NoContext) >>

deploy_production(c) ==
    << Command(cmd_stop_service, NoContext),
       Upload("upload_zip", c.rss_r_zip, EmptyPath),
       Command(cmd_check_exec(c), << "Zip does not contain ", rss_r_exec_in_zip >>),
       Command(cmd_check_static(c), << "Zip does not contain ", static_dir_in_zip >>),
       Command(cmd_rm_static(c), NoContext),
       Command(cmd_extract_exec(c), NoContext),
       Command(cmd_extract_static(c), NoContext),
       Command(cmd_chown_exec(c), NoContext),
       Command(cmd_chown_static(c), NoContext),
       Command(cmd_start_service, NoContext),
       Command(cmd_status_service, NoContext) >>

persistence_dir(c) == Push(Push(c.rss_r_target_test_dir, "rss_r"), "persistence")
config_file_target(c) == Push(persistence_dir(c), "app_config.ron")

cmd_rm_test_dir(c) == Format(<< "rm -rf '", c.rss_r_target_test_dir, "'" >>)
cmd_unzip_test(c) ==
    Format(<< "unzip '", remote_zip_path(c), "' -d '", c.rss_r_target_test_dir, "'" >>)
cmd_mkdir_persistence(c) == Format(<< "mkdir -p '", persistence_dir(c), "'" >>)

\* run_test_rss_r is defined (main.rs:236-252) and called from nowhere.
cmd_run_test(c) ==
    Format(<< "cd '", Push(c.rss_r_target_test_dir, "rss_r"), "'; '",
              Push(Push(c.rss_r_target_test_dir, "rss_r"), "rss_r"), "'" >>)

\* deploy_to_test_dir ending with a call of run_test_rss_r
deploy_to_test_dir_RunsTest(c) ==
    << Upload("upload_zip", c.rss_r_zip, EmptyPath),
       Command(cmd_rm_test_dir(c), NoContext),
       Command(cmd_unzip_test(c), NoContext),
       Command(cmd_mkdir_persistence(c), NoContext),
       Upload("upload", c.rss_r_test_config_file, config_file_target(c)),
       Command(cmd_run_test(c), NoContext) >>

deploy_to_test_dir(c) ==
    << Upload("upload_zip", c.rss_r_zip, EmptyPath),
       Command(cmd_rm_test_dir(c), NoContext),
       Command(cmd_unzip_test(c), NoContext),
       Command(cmd_mkdir_persistence(c), NoContext),
       Upload("upload", c.rss_r_test_config_file, config_file_target(c)) >>

\* main: if args.production { deploy_production } else { deploy_to_test_dir }
Workflow(production, c) ==
    IF production THEN deploy_production(c) ELSE deploy_to_test_dir(c)

Steps == Workflow(args_production, config)

CurrentStep == Steps[step]

\* The arguments upload_file is called with at the current step.
UploadArgs ==
    IF CurrentStep.kind = "upload_zip"
    THEN [ local |-> CurrentStep.local, remote |-> remote_zip_path(config) ]
    ELSE [ local |-> CurrentStep.local, remote |-> CurrentStep.remote ]

-----------------------------------------------------------------------------
(* Initial state: the command line, the configuration file and the disk. *)

\* upload_file before it has read the file or asked for the copy
NoTransfer == [ size |-> -1, mode |-> -1, length |-> -1, sent |-> 0 ]

DefaultConfig ==
    [ target_host |-> "", target_ip |-> DefaultPort, username |-> "",
      rss_r_zip |-> EmptyPath, rss_r_target_test_dir |-> EmptyPath,
      rss_r_test_config_file |-> EmptyPath,
      rss_r_production_directory |-> EmptyPath, rss_r_production_user |-> "" ]

Init ==
    /\ args_production \in BOOLEAN
    /\ config_file \in {"absent", "unparsable", "ok"}
    /\ IF config_file = "ok" THEN config \in Configs ELSE config = DefaultConfig
    /\ key_file_exists \in BOOLEAN
    /\ pc = "load"
    /\ step = 0
    /\ tcp_connects = 0
    /\ sessions = 0
    /\ issued = << >>
    /\ ec_pc = "idle"
    /\ up_pc = "idle"
    /\ watcher = "none"
    /\ handler_installed = FALSE
    /\ channel = "none"
    /\ avail = 0
    /\ bursts = 0
    /\ remote_eof = FALSE
    /\ remote_closed = FALSE
    /\ remote_exit = 0
    /\ amount = 0
    /\ written = 0
    /\ chan_log = << >>
    /\ buf = << >>
    /\ nread = 0
    /\ stdout = << >>
    /\ flushed = 0
    /\ transfer = NoTransfer
    /\ open_channels = 0
    /\ prev_cancelled = FALSE
    /\ results = << >>
    /\ error = NoError
    /\ exit_code = -1

cfg_vars == << args_production, config_file, config, key_file_exists >>
conn_vars == << tcp_connects, sessions >>
remote_vars == << avail, bursts, remote_eof, remote_closed, remote_exit >>
call_vars == << ec_pc, up_pc, watcher, channel, amount, written, chan_log >>
hist_vars == << results >>
io_vars == << buf, nread, stdout, flushed >>
new_vars == << io_vars, transfer, open_channels, prev_cancelled >>

-----------------------------------------------------------------------------
(* Ends of the run *)

\* std::process::exit(code)
Exit(code) ==
    /\ pc' = "exited"
    /\ exit_code' = code

\* A main whose process ends with status 0 whatever it returned
main_exit_AlwaysZero(result) == 0

\* fn main() -> Result<()>: the status of the process when main returns
main_exit(result) == IF result = "Ok" THEN 0 ELSE 1

\* main returns Err(e): the `?` operator hands e up to main, every local
\* (the channel, the Signals) is dropped, and the process ends nonzero.
ReturnErr(e) ==
    /\ Exit(main_exit("Err"))
    /\ error' = e
    /\ ec_pc' = "idle"
    /\ up_pc' = "idle"
    /\ watcher' = "none"
    /\ channel' = "none"

IoError(at) == [ NoError EXCEPT !.kind = "io", !.at = at ]

-----------------------------------------------------------------------------
(* main *)

\* Config::load, and main's match on it: a configuration that is absent or
\* does not parse makes main write the defaults and exit(1).
main_load ==
    /\ pc = "load"
    /\ IF config_file = "ok"
       THEN /\ pc' = "verify"
            /\ UNCHANGED exit_code
       ELSE Exit(1)
    /\ UNCHANGED << cfg_vars, step, conn_vars, issued, call_vars,
                    handler_installed, remote_vars, hist_vars, error, new_vars >>

\* if !verify_config(&config) { exit(1); }  then the workflow the flag
\* selects, each of which starts with connect_and_login.
main_verify ==
    /\ pc = "verify"
    /\ IF verify_config(config)
       THEN /\ pc' = "tcp_connect"
            /\ UNCHANGED exit_code
       ELSE Exit(1)
    /\ UNCHANGED << cfg_vars, step, conn_vars, issued, call_vars,
                    handler_installed, remote_vars, hist_vars, error, new_vars >>

-----------------------------------------------------------------------------
(* connect_and_login *)

\* A connect_and_login that starts over when one of its calls fails
ConnectFailed_Retries(at) ==
    /\ pc' = "tcp_connect"
    /\ UNCHANGED << call_vars, error, exit_code >>

\* What connect_and_login does after a call of its own fails: the `?`
\* returns the error, nothing is tried again.
ConnectFailed(at) ==
    /\ ReturnErr(IoError(at))
    /\ UNCHANGED << amount, written, chan_log >>

\* TcpStream::connect(&target)
TcpStream_connect(ok) ==
    /\ pc = "tcp_connect"
    /\ tcp_connects' = tcp_connects + 1
    /\ IF ok
       THEN /\ pc' = "session_new"
            /\ UNCHANGED << call_vars, error, exit_code >>
       ELSE ConnectFailed("tcp_connect")
    /\ UNCHANGED << cfg_vars, step, sessions, issued, handler_installed,
                    remote_vars, hist_vars, new_vars >>

\* The calls between the connect and the Ok(session): Session::new,
\* session.handshake, session.userauth_agent.
LoginCalls == << "session_new", "handshake", "userauth_agent" >>

AfterLogin(at) ==
    IF at = "session_new" THEN "handshake"
    ELSE IF at = "handshake" THEN "userauth_agent"
    ELSE "workflow"

login_call(ok) ==
    /\ \E i \in 1..Len(LoginCalls) : pc = LoginCalls[i]
    /\ IF ok
       THEN /\ pc' = AfterLogin(pc)
            /\ sessions' = IF pc = "userauth_agent" THEN sessions + 1 ELSE sessions
            /\ step' = IF pc = "userauth_agent" THEN 1 ELSE step
            /\ UNCHANGED << call_vars, error, exit_code >>
       ELSE /\ ConnectFailed(pc)
            /\ UNCHANGED << sessions, step >>
    /\ UNCHANGED << cfg_vars, tcp_connects, issued, handler_installed,
                    remote_vars, hist_vars, new_vars >>

-----------------------------------------------------------------------------
(* The workflow: deploy_production / deploy_to_test_dir, statement by statement *)

\* Drop of the call's Channel value: a channel the call opened is freed.
ChannelsAfterDrop ==
    IF channel = "none" THEN open_channels ELSE open_channels - 1

\* A call that returns Ok and leaves its Signals registered
ReturnOk_KeepsWatcher ==
    /\ pc' = "workflow"
    /\ step' = step + 1
    /\ ec_pc' = "idle"
    /\ up_pc' = "idle"
    /\ channel' = "none"
    /\ open_channels' = ChannelsAfterDrop
    /\ UNCHANGED << amount, written, remote_vars, io_vars, transfer,
                    prev_cancelled, watcher >>

\* A call that returns Ok without dropping the channel it opened
ReturnOk_LeaksChannel ==
    /\ pc' = "workflow"
    /\ step' = step + 1
    /\ ec_pc' = "idle"
    /\ up_pc' = "idle"
    /\ watcher' = "none"
    /\ channel' = "none"
    /\ UNCHANGED << amount, written, remote_vars, io_vars, transfer,
                    prev_cancelled, open_channels >>

\* A call of the workflow returned Ok(()): the next statement is the next step.
\* The locals of the call (its Channel, its Signals) are dropped.
ReturnOk ==
    /\ pc' = "workflow"
    /\ step' = step + 1
    /\ ec_pc' = "idle"
    /\ up_pc' = "idle"
    /\ watcher' = "none"
    /\ channel' = "none"
    /\ open_channels' = ChannelsAfterDrop
    /\ UNCHANGED << amount, written, remote_vars, io_vars, transfer,
                    prev_cancelled >>

\* History: the call of the current step returned `result`, having read the
\* exit status `status`.
Returned(result, status) ==
    results' = Append(results, [ result |-> result, exit |-> status ])

\* A workflow that drops the error of a call and goes on to the next step
StepFailed_Ignored(e) ==
    /\ pc' = "workflow"
    /\ step' = step + 1
    /\ ec_pc' = "idle"
    /\ up_pc' = "idle"
    /\ watcher' = "none"
    /\ channel' = "none"
    /\ open_channels' = ChannelsAfterDrop
    /\ UNCHANGED << error, exit_code, amount, written, remote_vars, io_vars,
                    transfer, prev_cancelled >>

\* A workflow that logs the error of a call and goes on to the next step
StepFailed_Continues(e) ==
    /\ pc' = "workflow"
    /\ step' = step + 1
    /\ error' = e
    /\ ec_pc' = "idle"
    /\ up_pc' = "idle"
    /\ watcher' = "none"
    /\ channel' = "none"
    /\ open_channels' = ChannelsAfterDrop
    /\ UNCHANGED << exit_code, amount, written, remote_vars, io_vars,
                    transfer, prev_cancelled >>

\* A call of the workflow returned Err(e) and the workflow's `?` returns it.
StepFailed(e) ==
    /\ ReturnErr(e)
    /\ open_channels' = ChannelsAfterDrop
    /\ UNCHANGED << step, amount, written, remote_vars, io_vars,
                    transfer, prev_cancelled >>

\* The statement the workflow is at: the next execute_command or upload call,
\* or the final Ok(()) with which main returns and the process exits 0.
Log(event) == chan_log' = Append(chan_log, event)

Has(log, event) == \E i \in 1..Len(log) : log[i] = event

\* A sequence of calls that asks for the remote copy before reading the file
UploadCalls_ScpFirst == << "scp_send", "file_open", "read_to_end", "write_all",
                           "send_eof", "wait_eof", "close", "wait_close" >>

\* The calls of upload_file, in the order of its statements.
UploadCalls == << "file_open", "read_to_end", "scp_send", "write_all",
                  "send_eof", "wait_eof", "close", "wait_close" >>

\* A call starts with fresh locals and a channel on which nothing has
\* arrived; what the call before it left behind is history.
CallStart ==
    /\ amount' = 0
    /\ written' = 0
    /\ chan_log' = << >>
    /\ avail' = 0
    /\ bursts' = 0
    /\ remote_eof' = FALSE
    /\ remote_closed' = FALSE
    /\ remote_exit' = 0
    /\ buf' = << >>
    /\ nread' = 0
    /\ stdout' = << >>
    /\ flushed' = 0
    /\ transfer' = NoTransfer
    /\ prev_cancelled' = Has(chan_log, "detect")

workflow_step ==
    /\ pc = "workflow"
    /\ IF step > Len(Steps)
       THEN /\ Exit(main_exit("Ok"))
            /\ UNCHANGED << call_vars, hist_vars, error, remote_vars, io_vars,
                            transfer, prev_cancelled >>
       ELSE IF CurrentStep.kind = "command"
       THEN /\ pc' = "execute_command"
            /\ ec_pc' = "signals_new"
            /\ CallStart
            /\ UNCHANGED << up_pc, watcher, channel, hist_vars, error, exit_code >>
       ELSE IF CurrentStep.kind = "upload_zip" /\ FileName(CurrentStep.local) = None
       THEN \* .ok_or_eyre("Cannot upload file, path does not have file name.")?
            /\ ReturnErr([ NoError EXCEPT !.kind = "no_file_name" ])
            /\ Returned("Err", NoStatus)
            /\ CallStart
       ELSE /\ pc' = "upload_file"
            /\ up_pc' = UploadCalls[1]
            /\ CallStart
            /\ UNCHANGED << ec_pc, watcher, channel, hist_vars, error, exit_code >>
    /\ UNCHANGED << cfg_vars, step, conn_vars, issued, handler_installed,
                    open_channels >>

-----------------------------------------------------------------------------
(* execute_command *)

Min(a, b) == IF a < b THEN a ELSE b

CommandIssue == [ kind |-> "command", text |-> CurrentStep.command,
                  local |-> EmptyPath, remote |-> EmptyPath,
                  session |-> sessions ]

\* Err(eyre!("command `{}` failed with exit code `{}`", command, exit_code)),
\* with the context the caller attached
CommandError(code) ==
    [ kind |-> "exit", at |-> "exit_status", command |-> CurrentStep.command,
      exit_code |-> code, context |-> CurrentStep.context ]

\* A call made by execute_command returned an error: `?` returns it.
ec_failed ==
    /\ StepFailed([ IoError(ec_pc) EXCEPT !.context = CurrentStep.context ])
    /\ Returned("Err", NoStatus)
    /\ UNCHANGED chan_log

\* Signals::new([SIGINT])
ec_signals_new(ok) ==
    /\ pc = "execute_command" /\ ec_pc = "signals_new"
    /\ IF ok
       THEN /\ ec_pc' = "channel_session"
            /\ watcher' = "idle"
            /\ handler_installed' = TRUE
            /\ UNCHANGED << pc, step, up_pc, channel, amount, written, chan_log,
                            remote_vars, hist_vars, error, exit_code,
                            new_vars >>
       ELSE /\ ec_failed
            /\ UNCHANGED handler_installed
    /\ UNCHANGED << cfg_vars, conn_vars, issued >>

\* session.channel_session()
ec_channel_session(ok) ==
    /\ pc = "execute_command" /\ ec_pc = "channel_session"
    /\ IF ok
       THEN /\ ec_pc' = "handle_extended_data"
            /\ channel' = "open"
            /\ open_channels' = open_channels + 1
            /\ UNCHANGED << pc, step, up_pc, watcher, amount, written, chan_log,
                            remote_vars, hist_vars, error, exit_code, io_vars,
                            transfer, prev_cancelled >>
       ELSE ec_failed
    /\ UNCHANGED << cfg_vars, conn_vars, issued, handler_installed >>

\* channel.handle_extended_data(ExtendedData::Merge)
ec_handle_extended_data(ok) ==
    /\ pc = "execute_command" /\ ec_pc = "handle_extended_data"
    /\ IF ok
       THEN /\ ec_pc' = "exec"
            /\ UNCHANGED << pc, step, up_pc, watcher, channel, amount, written,
                            chan_log, remote_vars, hist_vars, error, exit_code,
                            new_vars >>
       ELSE ec_failed
    /\ UNCHANGED << cfg_vars, conn_vars, issued, handler_installed >>

\* channel.exec(command): the command is requested of the remote host
\* whether or not the call then reports an error.
ec_exec(ok) ==
    /\ pc = "execute_command" /\ ec_pc = "exec"
    /\ issued' = Append(issued, CommandIssue)
    /\ IF ok
       THEN /\ ec_pc' = "eof_test"
            /\ Log("exec")
            /\ UNCHANGED << pc, step, up_pc, watcher, channel, amount, written,
                            remote_vars, hist_vars, error, exit_code,
                            new_vars >>
       ELSE ec_failed
    /\ UNCHANGED << cfg_vars, conn_vars, handler_installed >>

\* A function that reads the exit status right after the loop
AfterLoop_SkipsWait == "exit_status"

\* The statement after the while loop, where both the end of the loop and
\* the break go: channel.wait_close()
AfterLoop == "wait_close"

\* channel.eof(): the remote side sent end-of-output and nothing is left to read
channel_eof == remote_eof /\ avail = 0

\* while !channel.eof() { ... channel.read(&mut bytes) : the loop test and,
\* when it lets the body run, the start of the body's read.
ec_eof_test ==
    /\ pc = "execute_command" /\ ec_pc = "eof_test"
    /\ IF channel_eof
       THEN /\ ec_pc' = AfterLoop
            /\ UNCHANGED chan_log
       ELSE /\ ec_pc' = "read"
            /\ Log("read")
    /\ UNCHANGED << cfg_vars, pc, step, conn_vars, issued, up_pc, watcher,
                    handler_installed, channel, amount, written, remote_vars,
                    hist_vars, error, exit_code, new_vars >>

\* let mut bytes = [0; 32]; after a read of n bytes that starts at offset
\* `from` of the remote stream.  Byte k of the stream carries the value k.
Filled(from, n) == [ i \in 1..ChunkSize |-> IF i <= n THEN from + i ELSE 0 ]

\* channel.read(&mut bytes) returns: it blocks until output has arrived or
\* the remote side has sent end-of-output, and hands over at most one chunk.
ec_read(ok) ==
    /\ pc = "execute_command" /\ ec_pc = "read"
    /\ IF ok
       THEN /\ avail > 0 \/ remote_eof
            /\ amount' = Min(ChunkSize, avail)
            /\ avail' = avail - Min(ChunkSize, avail)
            /\ buf' = Filled(nread, Min(ChunkSize, avail))
            /\ nread' = nread + Min(ChunkSize, avail)
            /\ ec_pc' = "write_all"
            /\ UNCHANGED << pc, step, up_pc, watcher, channel, written, chan_log,
                            bursts, remote_eof, remote_closed, remote_exit,
                            hist_vars, error, exit_code, stdout, flushed,
                            transfer, open_channels, prev_cancelled >>
       ELSE ec_failed
    /\ UNCHANGED << cfg_vars, conn_vars, issued, handler_installed >>

\* A write of the whole array, whatever the read returned
Slice_WholeBuffer(bytes, n) == bytes

\* &bytes[0..amount]
Slice(bytes, n) == SubSeq(bytes, 1, n)

\* stdout().write_all(&bytes[0..amount])
ec_write_all(ok) ==
    /\ pc = "execute_command" /\ ec_pc = "write_all"
    /\ IF ok
       THEN /\ written' = written + amount
            /\ stdout' = stdout \o Slice(buf, amount)
            /\ ec_pc' = "flush"
            /\ UNCHANGED << pc, step, up_pc, watcher, channel, amount, chan_log,
                            remote_vars, hist_vars, error, exit_code, buf, nread,
                            flushed, transfer, open_channels, prev_cancelled >>
       ELSE ec_failed
    /\ UNCHANGED << cfg_vars, conn_vars, issued, handler_installed >>

\* A flush that leaves what was written in the buffer of stdout
Flush_Nothing(out, n) == n

\* stdout().flush(): how much of what was written has reached the terminal
Flush(out, n) == Len(out)

\* stdout().flush()
ec_flush(ok) ==
    /\ pc = "execute_command" /\ ec_pc = "flush"
    /\ IF ok
       THEN /\ ec_pc' = "pending"
            /\ flushed' = Flush(stdout, flushed)
            /\ UNCHANGED << pc, step, up_pc, watcher, channel, amount, written,
                            chan_log, remote_vars, hist_vars, error, exit_code,
                            buf, nread, stdout, transfer, open_channels,
                            prev_cancelled >>
       ELSE ec_failed
    /\ UNCHANGED << cfg_vars, conn_vars, issued, handler_installed >>

\* A loop body that logs the interrupt and goes on polling
AfterPending_KeepsPolling(interrupted) == "eof_test"

\* Where the loop body goes after `if signals.pending().next().is_some()`.
AfterPending(interrupted) == IF interrupted THEN "send_eof" ELSE "eof_test"

\* if signals.pending().next().is_some(): the check takes the pending
\* interrupts out of the watcher.
ec_pending ==
    /\ pc = "execute_command" /\ ec_pc = "pending"
    /\ ec_pc' = AfterPending(watcher = "pending")
    /\ IF watcher = "pending"
       THEN /\ watcher' = "idle"
            /\ Log("detect")
       ELSE UNCHANGED << watcher, chan_log >>
    /\ UNCHANGED << cfg_vars, pc, step, conn_vars, issued, up_pc,
                    handler_installed, channel, amount, written, remote_vars,
                    hist_vars, error, exit_code, new_vars >>

\* channel.send_eof()
ec_send_eof(ok) ==
    /\ pc = "execute_command" /\ ec_pc = "send_eof"
    /\ IF ok
       THEN /\ ec_pc' = "close"
            /\ channel' = "eof_sent"
            /\ Log("send_eof")
            /\ UNCHANGED << pc, step, up_pc, watcher, amount, written,
                            remote_vars, hist_vars, error, exit_code,
                            new_vars >>
       ELSE ec_failed
    /\ UNCHANGED << cfg_vars, conn_vars, issued, handler_installed >>

\* channel.close(); break;
ec_close(ok) ==
    /\ pc = "execute_command" /\ ec_pc = "close"
    /\ IF ok
       THEN /\ ec_pc' = AfterLoop
            /\ channel' = "closed"
            /\ Log("close")
            /\ UNCHANGED << pc, step, up_pc, watcher, amount, written,
                            remote_vars, hist_vars, error, exit_code,
                            new_vars >>
       ELSE ec_failed
    /\ UNCHANGED << cfg_vars, conn_vars, issued, handler_installed >>

\* channel.wait_close(): blocks until the remote side has closed the channel
ec_wait_close(ok) ==
    /\ pc = "execute_command" /\ ec_pc = "wait_close"
    /\ IF ok
       THEN /\ remote_closed
            /\ ec_pc' = "exit_status"
            /\ Log("wait_close")
            /\ UNCHANGED << pc, step, up_pc, watcher, channel, amount, written,
                            remote_vars, hist_vars, error, exit_code,
                            new_vars >>
       ELSE ec_failed
    /\ UNCHANGED << cfg_vars, conn_vars, issued, handler_installed >>

\* A test of the exit status that lets status 1 pass
ExitResult_OneIsOk(code) == IF code \in {0, 1} THEN "Ok" ELSE "Err"

\* The value inside Ok(()): execute_command hands no output to its caller.
OkValue == << >>

\* if exit_code == 0 { Ok(()) } else { Err(..) }
ExitResult(code) == IF code = 0 THEN "Ok" ELSE "Err"

\* A function that reports a command it cancelled as failed
CommandResult_CancelIsErr(code, cancelled) ==
    IF cancelled THEN "Err" ELSE ExitResult(code)

\* What execute_command returns after the loop: the test of the exit status
\* and nothing else, whether or not the loop was left through the break.
CommandResult(code, cancelled) == ExitResult(code)

\* let exit_code = channel.exit_status()?; and the result built from it
ec_exit_status(ok) ==
    /\ pc = "execute_command" /\ ec_pc = "exit_status"
    /\ IF ok
       THEN /\ Returned(CommandResult(remote_exit, Has(chan_log, "detect")),
                        Status(remote_exit))
            /\ Log("exit_status")
            /\ IF CommandResult(remote_exit, Has(chan_log, "detect")) = "Ok"
               THEN /\ ReturnOk
                    /\ UNCHANGED << error, exit_code >>
               ELSE StepFailed(CommandError(remote_exit))
       ELSE ec_failed
    /\ UNCHANGED << cfg_vars, conn_vars, issued, handler_installed >>

-----------------------------------------------------------------------------
(* upload_file *)

UploadIssue == [ kind |-> "upload", text |-> << >>,
                 local |-> UploadArgs.local, remote |-> UploadArgs.remote,
                 session |-> sessions ]

UploadIndex(at) == CHOOSE i \in 1..Len(UploadCalls) : UploadCalls[i] = at

\* The state of the file-copy channel once the call `at` has succeeded.
UploadChannel(at, chan) ==
    IF at = "scp_send" THEN "open"
    ELSE IF at = "send_eof" THEN "eof_sent"
    ELSE IF at = "close" THEN "closed"
    ELSE chan

\* A request that declares one byte more than the file holds
scp_send_args_OneMore(n) == [ mode |-> ScpMode, length |-> n + 1 ]

\* session.scp_send(remote_path.as_std_path(), 0o644, bytes.len() as u64, None)
scp_send_args(n) == [ mode |-> ScpMode, length |-> n ]

\* What upload_file holds and has sent once the call `at` has succeeded;
\* n is the number of bytes read_to_end found in the file.
UploadTransfer(at, t, n) ==
    IF at = "read_to_end" THEN [ t EXCEPT !.size = n ]
    ELSE IF at = "scp_send"
    THEN [ t EXCEPT !.mode = scp_send_args(t.size).mode,
                    !.length = scp_send_args(t.size).length ]
    ELSE IF at = "write_all" THEN [ t EXCEPT !.sent = t.size ]
    ELSE t

\* One call of upload_file returns.  File::open succeeds only on a path that
\* exists; session.scp_send asks the remote host for the copy.
upload_call(ok) ==
    /\ pc = "upload_file"
    /\ issued' = IF up_pc = "scp_send" THEN Append(issued, UploadIssue) ELSE issued
    /\ IF ok
       THEN /\ up_pc = "file_open" => Exists(UploadArgs.local)
            /\ IF UploadIndex(up_pc) = Len(UploadCalls)
               THEN /\ ReturnOk
                    /\ Returned("Ok", NoStatus)
                    /\ UNCHANGED << error, exit_code >>
               ELSE /\ up_pc' = UploadCalls[UploadIndex(up_pc) + 1]
                    /\ channel' = UploadChannel(up_pc, channel)
                    /\ open_channels' = IF up_pc = "scp_send"
                                        THEN open_channels + 1
                                        ELSE open_channels
                    /\ \E n \in FileSizes :
                           transfer' = UploadTransfer(up_pc, transfer, n)
                    /\ UNCHANGED << pc, step, ec_pc, watcher, amount, written,
                                    remote_vars, hist_vars, error, exit_code,
                                    io_vars, prev_cancelled >>
            /\ Log(up_pc)
       ELSE /\ StepFailed(IoError(up_pc))
            /\ Returned("Err", NoStatus)
            /\ UNCHANGED chan_log
    /\ UNCHANGED << cfg_vars, conn_vars, handler_installed >>

-----------------------------------------------------------------------------
(* The environment: the remote command and the user's Ctrl+C *)

\* The remote command of the call in progress has been started and the local
\* side has not closed the channel.
RemoteRunning ==
    /\ pc = "execute_command"
    /\ Has(chan_log, "exec")
    /\ ~remote_eof

\* The remote command prints: the bytes arrive on the merged output stream.
RemoteOutput ==
    /\ RemoteRunning
    /\ channel # "closed"
    /\ bursts < MaxBursts
    /\ \E n \in BurstSizes : avail' = avail + n
    /\ bursts' = bursts + 1
    /\ UNCHANGED << cfg_vars, pc, step, conn_vars, issued, call_vars,
                    handler_installed, remote_eof, remote_closed, remote_exit,
                    hist_vars, error, exit_code, new_vars >>

\* The remote command ends: the host sends its exit status, end-of-output and
\* the close of the channel.
RemoteExit ==
    /\ RemoteRunning
    /\ \E code \in ExitCodes : remote_exit' = code
    /\ remote_eof' = TRUE
    /\ remote_closed' = TRUE
    /\ UNCHANGED << cfg_vars, pc, step, conn_vars, issued, call_vars,
                    handler_installed, avail, bursts, hist_vars, error,
                    exit_code, new_vars >>

\* The host answers the local close of the channel with its own close, the
\* command still running: no exit status is sent and exit_status() gives 0.
RemoteCloseAck ==
    /\ RemoteRunning
    /\ channel = "closed"
    /\ ~remote_closed
    /\ remote_closed' = TRUE
    /\ UNCHANGED << cfg_vars, pc, step, conn_vars, issued, call_vars,
                    handler_installed, avail, bursts, remote_eof, remote_exit,
                    hist_vars, error, exit_code, new_vars >>

\* SIGINT.  While a Signals of execute_command is registered the signal is
\* recorded for its pending(); before any Signals::new the default action
\* ends the process; after the Signals was dropped the signal is discarded.
Interrupt ==
    /\ pc # "exited"
    /\ IF watcher = "idle"
       THEN /\ watcher' = "pending"
            /\ Log("interrupt")
            /\ UNCHANGED << pc, exit_code >>
       ELSE /\ watcher = "none"
            /\ ~handler_installed
            /\ Exit(130)
            /\ UNCHANGED << watcher, chan_log >>
    /\ UNCHANGED << cfg_vars, step, conn_vars, issued, ec_pc, up_pc,
                    handler_installed, channel, amount, written, remote_vars,
                    hist_vars, error, new_vars >>

-----------------------------------------------------------------------------
(* Specifications *)

\* The steps the program takes when the call it is in returns without error.
Progress ==
    \/ main_load
    \/ main_verify
    \/ TcpStream_connect(TRUE)
    \/ login_call(TRUE)
    \/ workflow_step
    \/ ec_signals_new(TRUE)
    \/ ec_channel_session(TRUE)
    \/ ec_handle_extended_data(TRUE)
    \/ ec_exec(TRUE)
    \/ ec_eof_test
    \/ ec_read(TRUE)
    \/ ec_write_all(TRUE)
    \/ ec_flush(TRUE)
    \/ ec_pending
    \/ ec_send_eof(TRUE)
    \/ ec_close(TRUE)
    \/ ec_wait_close(TRUE)
    \/ ec_exit_status(TRUE)
    \/ upload_call(TRUE)

\* A call returns an error.
Failure ==
    \/ TcpStream_connect(FALSE)
    \/ login_call(FALSE)
    \/ ec_signals_new(FALSE)
    \/ ec_channel_session(FALSE)
    \/ ec_handle_extended_data(FALSE)
    \/ ec_exec(FALSE)
    \/ ec_read(FALSE)
    \/ ec_write_all(FALSE)
    \/ ec_flush(FALSE)
    \/ ec_send_eof(FALSE)
    \/ ec_close(FALSE)
    \/ ec_wait_close(FALSE)
    \/ ec_exit_status(FALSE)
    \/ upload_call(FALSE)

Environment ==
    \/ RemoteOutput
    \/ RemoteExit
    \/ RemoteCloseAck
    \/ Interrupt

Next == Progress \/ Failure \/ Environment

Spec == Init /\ [][Next]_vars

\* The program is one thread that runs whenever it is not blocked in a call:
\* a step of it that is possible is eventually taken.  Nothing obliges the
\* remote command to print or end, a call to fail, or the user to interrupt.
FairSpec == Spec /\ WF_vars(Progress)

-----------------------------------------------------------------------------
(* Properties *)

Ended == pc = "exited"

\* main ended through exit(1) or by returning an Err
EndedNonzero == Ended /\ exit_code = 1

\* main returned Ok(())
EndedOk == Ended /\ exit_code = 0

\* The run has gone past validation into connect_and_login or further.
ConnectReached ==
    \/ pc \in {"tcp_connect", "session_new", "handshake", "userauth_agent",
               "workflow", "execute_command", "upload_file"}
    \/ tcp_connects > 0

\* The configurations the validation is said to reject, less the key file.
NamedAsInvalid(c) ==
    \/ c.target_host = ""
    \/ c.username = ""
    \/ c.rss_r_target_test_dir = << >>
    \/ c.rss_r_zip \notin ExistingPaths
    \/ c.rss_r_test_config_file \notin ExistingPaths

\* A configuration rejected by validation: no connection, no remote
\* operation, and the run ends nonzero (or is still before validation, or
\* was ended there by SIGINT).
RejectedBeforeConnect ==
    /\ ~ConnectReached
    /\ issued = << >>
    /\ sessions = 0
    /\ \/ pc \in {"load", "verify"}
       \/ Ended /\ exit_code \in {1, 130}

\* C1 as stated: an empty host, username or test directory, or a missing
\* artifact, test settings file or key file, makes validation reject the
\* configuration, and no connection is attempted.
C1_Original ==
    (config_file = "ok" /\ (NamedAsInvalid(config) \/ ~key_file_exists))
        => RejectedBeforeConnect

\* C1, amended: an empty host, username or test directory, or a missing
\* artifact or test settings file, makes validation reject the configuration
\* and the run ends with no connection attempted; connect_and_login is
\* reached only when verify_config returned true.  No key file is looked at.
C1_RejectsBeforeConnect ==
    /\ (config_file = "ok" /\ NamedAsInvalid(config)) => RejectedBeforeConnect
    /\ ConnectReached => (config_file = "ok" /\ verify_config(config))

\* A run rejected for its missing artifact has ended.
C1_Witness ==
    /\ config_file = "ok"
    /\ config.target_host # "" /\ config.username # ""
    /\ config.rss_r_zip = << "missing.zip" >>
    /\ EndedNonzero
    /\ tcp_connects = 0

-----------------------------------------------------------------------------
(* The remote operations of the two workflows, written out *)

IsPrefix(s, t) == Len(s) <= Len(t) /\ \A i \in 1..Len(s) : s[i] = t[i]

Cmd(text) == [ kind |-> "command", text |-> text, local |-> << >>,
               remote |-> << >>, session |-> 1 ]

Upl(local, remote) == [ kind |-> "upload", text |-> << >>, local |-> local,
                        remote |-> remote, session |-> 1 ]

ZipName(c) == c.rss_r_zip[Len(c.rss_r_zip)]

TestDeployOps(c) ==
    << Upl(c.rss_r_zip, << "/tmp", ZipName(c) >>),
       Cmd(<< "rm -rf '", c.rss_r_target_test_dir, "'" >>),
       Cmd(<< "unzip '", << "/tmp", ZipName(c) >>, "' -d '", c.rss_r_target_test_dir, "'" >>),
       Cmd(<< "mkdir -p '", c.rss_r_target_test_dir \o << "rss_r", "persistence" >>, "'" >>),
       Upl(c.rss_r_test_config_file,
           c.rss_r_target_test_dir \o << "rss_r", "persistence", "app_config.ron" >>) >>

ProductionOps(c) ==
    LET zip == << "/tmp", ZipName(c) >>
        dir == c.rss_r_production_directory
        usr == c.rss_r_production_user
    IN << Cmd(<< "sudo systemctl stop rss_r" >>),
          Upl(c.rss_r_zip, zip),
          Cmd(<< "unzip -l '", zip, "' | grep -q '", << "rss_r/rss_r" >>, "'" >>),
          Cmd(<< "unzip -l '", zip, "' | grep -q '", << "rss_r/static/" >>, "'" >>),
          Cmd(<< "sudo rm -r '", dir \o << "static" >>, "'" >>),
          Cmd(<< "sudo unzip -j -o '", zip, "' '", << "rss_r/rss_r" >>, "' -d ", dir >>),
          Cmd(<< "sudo unzip -j -o '", zip, "' '", << "rss_r/static/" >>, "*' -d ",
                 dir \o << "static" >> >>),
          Cmd(<< "sudo chown '", usr, "':'", usr, "' '", dir \o << "rss_r" >>, "'" >>),
          Cmd(<< "sudo chown -R '", usr, "':'", usr, "' '", dir \o << "static" >>, "'" >>),
          Cmd(<< "sudo systemctl start rss_r" >>),
          Cmd(<< "systemctl status rss_r" >>) >>

\* Call k of the workflow has returned Ok.
Succeeded(k) == k <= Len(results) /\ results[k].result = "Ok"

\* The operation op has been requested of the remote host.
Issued(op) == \E i \in 1..Len(issued) : issued[i] = op

\* C2: a test deploy in which every step succeeds issues, in this order and
\* once each, the upload of the artifact to /tmp, rm -rf of the test
\* directory, unzip into it, mkdir -p of the persistence directory and the
\* upload of the settings file as app_config.ron, and nothing else; at no
\* point of a test deploy has anything but a prefix of that list been issued.
C2_TestDeploySequence ==
    (~args_production /\ ConnectReached) =>
        /\ IsPrefix(issued, TestDeployOps(config))
        /\ EndedOk => issued = TestDeployOps(config)
        /\ (\A k \in 1..5 : Succeeded(k)) => issued = TestDeployOps(config)

\* A test deploy has completed with exit code 0.
C2_Witness ==
    /\ ~args_production
    /\ EndedOk
    /\ Len(issued) = 5
    /\ issued[5].remote = << "/srv/test", "rss_r", "persistence", "app_config.ron" >>

\* C3: in a production deploy the command that removes the static directory
\* is issued only after both archive checks returned Ok, and when an archive
\* check fails the run ends with neither the removal nor any later
\* extraction, chown or service start issued.
C3_ChecksGateRemoval ==
    (args_production /\ ConnectReached) =>
        /\ Issued(ProductionOps(config)[5]) =>
              /\ Succeeded(3) /\ Succeeded(4)
              /\ results[3].exit = << 0 >> /\ results[4].exit = << 0 >>
              /\ issued[3] = ProductionOps(config)[3]
              /\ issued[4] = ProductionOps(config)[4]
        /\ error.context # NoContext =>
              /\ EndedNonzero
              /\ \A k \in 5..11 : ~Issued(ProductionOps(config)[k])

\* The check for the executable failed with a nonzero exit status.
C3_Witness ==
    /\ args_production
    /\ EndedNonzero
    /\ error.kind = "exit"
    /\ error.context = << "Zip does not contain ", << "rss_r/rss_r" >> >>
    /\ Len(issued) = 3

\* The operations of the workflow this run was started for.
WorkflowOps == IF args_production THEN ProductionOps(config) ELSE TestDeployOps(config)

FailFastState ==
    /\ \A k \in 1..Len(results) :
          results[k].result = "Err" =>
              /\ k = Len(results)
              /\ EndedNonzero
              /\ error # NoError
              /\ Len(issued) <= k
    /\ Len(issued) <= Len(results) + 1
    /\ ConnectReached => IsPrefix(issued, WorkflowOps)

\* C4: both workflows are fail-fast.  The call that returns Err is the last
\* call of the run: the run has ended nonzero with that error, no operation
\* of a later step has been issued, the operations issued are the steps' own
\* (each once, in order: no retry, no compensating operation), and once an
\* error is there nothing more is issued or called.
C4_FailFast ==
    /\ []FailFastState
    /\ [][error # NoError =>
            (Ended /\ issued' = issued /\ results' = results /\ pc' = pc)]_vars

\* A production deploy whose sixth step, the extraction of the executable,
\* was issued and failed.
C4_Witness ==
    /\ args_production
    /\ EndedNonzero
    /\ Len(results) = 6 /\ results[6].result = "Err"
    /\ Len(issued) = 6
    /\ issued[6].text[1] = "sudo unzip -j -o '"

\* C5: with the production flag set a fully successful run issues exactly
\* the production sequence (stop, upload, two archive checks, removal of the
\* static directory, two extractions, chown, chown -R, start, status), a
\* production run never issues anything but a prefix of it, and the start of
\* the service is issued only after both chown calls returned Ok.
C5_ProductionSequence ==
    (args_production /\ ConnectReached) =>
        /\ IsPrefix(issued, ProductionOps(config))
        /\ EndedOk => issued = ProductionOps(config)
        /\ \A i \in 1..Len(issued) :
              issued[i].text = << "sudo systemctl start rss_r" >> =>
                  /\ i = 10
                  /\ Succeeded(8) /\ Succeeded(9)
                  /\ issued[8].text[1] = "sudo chown '"
                  /\ issued[9].text[1] = "sudo chown -R '"
        /\ \A i \in 1..Len(issued) : \A j \in 1..Len(TestDeployOps(config)) :
              issued[i].kind = "command" => issued[i] # TestDeployOps(config)[j]

\* A production deploy has completed with exit code 0.
C5_Witness ==
    /\ args_production
    /\ EndedOk
    /\ Len(issued) = 11
    /\ issued[11].text = << "systemctl status rss_r" >>

\* C6: execute_command returns Ok exactly when the exit status it read is 0;
\* for a nonzero status the error carries the command text and that status,
\* and the workflow ends the run with it.
C6_ExitStatusDecides ==
    /\ \A k \in 1..Len(results) :
          results[k].exit # << >> =>
              (results[k].result = "Ok" <=> results[k].exit = << 0 >>)
    /\ error.kind = "exit" =>
          /\ EndedNonzero
          /\ error.exit_code # 0
          /\ results[Len(results)] = [ result |-> "Err", exit |-> << error.exit_code >> ]
          /\ remote_exit = error.exit_code
          /\ error.command = issued[Len(issued)].text
          /\ Len(issued) = Len(results)

\* A command ended with exit status 7 and the run ended with that error.
C6_Witness ==
    /\ EndedNonzero
    /\ error.kind = "exit"
    /\ error.exit_code = 7
    /\ error.command = << "sudo systemctl stop rss_r" >>

-----------------------------------------------------------------------------
(* The poll loop of execute_command and the interrupt *)

Positions(log, event) == { i \in 1..Len(log) : log[i] = event }

\* The calls the program made on the channel after position d of the log.
CallsAfter(log, d) ==
    SelectSeq(SubSeq(log, d + 1, Len(log)), LAMBDA ev : ev # "interrupt")

\* chan_log is the log of an execute_command call.
CommandLog == Has(chan_log, "exec")

\* C7: when the pending() check of the poll loop finds an interrupt,
\* execute_command next sends end-of-input, then closes the channel, then
\* leaves the loop for wait_close: no read follows the detection, neither
\* call waits for the remote end-of-output, an interrupt is detected at most
\* once in a command, and end-of-input and close are sent on no other path.
C7_InterruptClosesChannel ==
    CommandLog =>
        /\ Cardinality(Positions(chan_log, "detect")) <= 1
        /\ \A d \in Positions(chan_log, "detect") :
              IsPrefix(CallsAfter(chan_log, d),
                       << "send_eof", "close", "wait_close", "exit_status" >>)
        /\ \A j \in 1..Len(chan_log) :
              chan_log[j] \in {"send_eof", "close"} =>
                  \E d \in Positions(chan_log, "detect") : d < j
        /\ (pc = "execute_command" /\ ec_pc \in {"send_eof", "close"}) =>
              /\ Has(chan_log, "detect")
              /\ ENABLED (ec_send_eof(TRUE) \/ ec_close(TRUE))

\* The channel was closed after an interrupt while the remote command had
\* neither ended nor signalled end-of-output.
C7_Witness ==
    /\ pc = "execute_command" /\ ec_pc = "wait_close"
    /\ \E d \in Positions(chan_log, "detect") :
          CallsAfter(chan_log, d) = << "send_eof", "close" >>
    /\ ~remote_eof
    /\ ~remote_closed

\* C8 as stated: an interrupt that has arrived is detected before the next
\* read of remote output is started, so no read is started after an
\* interrupt has arrived.
C8_NoReadAfterInterrupt ==
    CommandLog =>
        \A i \in 1..Len(chan_log) : \A j \in 1..Len(chan_log) :
            (i < j /\ chan_log[i] = "interrupt") => chan_log[j] # "read"

\* The program is in the poll loop, blocked or not.
InPollLoop ==
    /\ pc = "execute_command"
    /\ ec_pc \in {"eof_test", "read", "write_all", "flush", "pending"}

\* The read of the poll loop is waiting on a remote command that has printed
\* nothing that is still unread and has not ended, and the interrupt arrived
\* after that read was started.
HungAndInterrupted ==
    /\ pc = "execute_command" /\ ec_pc = "read"
    /\ avail = 0 /\ ~remote_eof
    /\ chan_log[Len(chan_log)] = "interrupt"

\* C9 as stated: when an interrupt arrives while the remote command is hung
\* (it prints nothing more and does not end), execute_command eventually
\* sends end-of-input, closes the channel and leaves the poll loop.  (Runs in
\* which the remote command does print or end, or a call fails, are not runs
\* of a hung command and satisfy the formula.)
C9_InterruptEndsHungCommand ==
    [](  (HungAndInterrupted /\ watcher = "pending")
         => <>( \/ (Has(chan_log, "send_eof") /\ Has(chan_log, "close") /\ ~InPollLoop)
                \/ avail > 0
                \/ remote_eof
                \/ Ended ) )

\* C10: a run connects at most once and only after validation, has at most
\* one session, has that session before it issues any command or upload and
\* issues all of them on it; when the connect, the handshake or the
\* authentication fails the run ends nonzero, having connected once and
\* issued nothing.
C10_OneSession ==
    /\ tcp_connects <= 1
    /\ sessions <= 1
    /\ tcp_connects > 0 => (config_file = "ok" /\ ~NamedAsInvalid(config))
    /\ pc \in {"workflow", "execute_command", "upload_file"} =>
          (sessions = 1 /\ tcp_connects = 1)
    /\ issued # << >> =>
          /\ sessions = 1 /\ tcp_connects = 1
          /\ \A i \in 1..Len(issued) : issued[i].session = 1
    /\ sessions = 0 => issued = << >>
    /\ error.at \in {"tcp_connect", "session_new", "handshake", "userauth_agent"} =>
          /\ EndedNonzero
          /\ tcp_connects = 1
          /\ sessions = 0
          /\ issued = << >>

\* The handshake failed and the run ended.
C10_Witness ==
    /\ EndedNonzero
    /\ error.at = "handshake"
    /\ tcp_connects = 1
    /\ issued = << >>

-----------------------------------------------------------------------------
(* upload_file: the file-copy protocol *)

\* The protocol order of an upload.
UploadOrder == << "file_open", "read_to_end", "scp_send", "write_all",
                 "send_eof", "wait_eof", "close", "wait_close" >>

\* chan_log is the log of an upload_file call, running or returned.
UploadLog ==
    \/ pc = "upload_file"
    \/ Has(chan_log, "file_open")
    \/ Has(chan_log, "scp_send")
    \/ error.at = "file_open"

\* The latest call of the workflow has returned, with this result.
LastReturned(result) ==
    /\ pc # "upload_file" /\ pc # "execute_command"
    /\ results # << >>
    /\ results[Len(results)].result = result

\* C11: an upload follows one fixed order.  The file-copy channel is asked
\* for with mode 0644 and a declared length equal to the number of bytes read
\* from the local file, whatever that number is (zero included); exactly that
\* many bytes are written; then come send-eof, wait-eof, close and
\* wait-close.  The upload returns Ok only after all of them, and a call that
\* fails ends the upload with none of the later calls made.
C11_UploadProtocol ==
    UploadLog =>
        /\ IsPrefix(chan_log, UploadOrder)
        /\ Has(chan_log, "read_to_end") => transfer.size \in FileSizes
        /\ Has(chan_log, "scp_send") =>
              /\ transfer.mode = 6 * 64 + 4 * 8 + 4
              /\ transfer.length = transfer.size
        /\ transfer.sent = IF Has(chan_log, "write_all") THEN transfer.length ELSE 0
        /\ LastReturned("Ok") => chan_log = UploadOrder
        /\ LastReturned("Err") =>
              /\ Ended
              /\ Len(chan_log) < Len(UploadOrder)
              /\ error.kind = "io"
              /\ error.at = UploadOrder[Len(chan_log) + 1]
        /\ pc = "upload_file" => up_pc = UploadOrder[Len(chan_log) + 1]

\* An empty file was uploaded: length 0 was declared, nothing was written
\* and the four closing calls were made before the upload returned Ok.
C11_Witness ==
    /\ LastReturned("Ok")
    /\ chan_log = UploadOrder
    /\ transfer.size = 0
    /\ transfer.length = 0
    /\ transfer.sent = 0

-----------------------------------------------------------------------------
(* The exit status of the process *)

\* Every step of the selected workflow was run and returned Ok.
WorkflowCompleted ==
    /\ config_file = "ok"
    /\ ~NamedAsInvalid(config)
    /\ sessions = 1
    /\ issued = WorkflowOps
    /\ Len(results) = Len(WorkflowOps)
    /\ \A k \in 1..Len(results) : results[k].result = "Ok"
    /\ error = NoError

\* C12: the process ends with status 0 exactly when every step of the
\* selected workflow completed successfully; a configuration that is absent
\* or does not load, a rejected validation, a failed connect, handshake or
\* authentication, and a failed command or upload all end it nonzero.
C12_ExitCode ==
    /\ Ended =>
          /\ exit_code = 0 <=> WorkflowCompleted
          /\ config_file # "ok" => exit_code # 0
          /\ NamedAsInvalid(config) => exit_code # 0
          /\ error # NoError => exit_code # 0
          /\ (results # << >> /\ results[Len(results)].result = "Err") =>
                exit_code # 0
    /\ ~Ended => exit_code = -1

\* A production run ended with status 0 after its eleven steps.
C12_Witness ==
    /\ args_production
    /\ Ended
    /\ exit_code = 0
    /\ Len(results) = 11
    /\ issued = ProductionOps(config)

-----------------------------------------------------------------------------
(* execute_command: what happens to the output of the remote command *)

\* The first n bytes of the stream the remote command prints.
Stream(n) == [ i \in 1..n |-> i ]

\* The latest command ran to its end and returned Ok, no interrupt detected.
RanToCompletion ==
    /\ CommandLog
    /\ LastReturned("Ok")
    /\ ~Has(chan_log, "detect")

\* C13 as stated: a command that ran to completion with exit status 0 has
\* displayed nothing while it ran and has returned to its caller the output
\* exactly as the remote command printed it.
C13_BufferedMode ==
    RanToCompletion =>
        /\ stdout = << >>
        /\ OkValue = Stream(nread + avail)

\* C13, amended: execute_command streams and only streams.  Every chunk it
\* reads is written to standard output and flushed before the next read and
\* before the call returns, it holds no more than the 32 bytes of the latest
\* chunk, and when a command ran to completion with exit status 0 everything
\* the remote command printed has been displayed, in order.
C13_StreamsLive ==
    CommandLog =>
        /\ Len(buf) <= 32
        /\ pc = "execute_command" =>
              /\ nread = Len(stdout) + (IF ec_pc = "write_all" THEN amount ELSE 0)
              /\ flushed = Len(stdout) - (IF ec_pc = "flush" THEN amount ELSE 0)
        /\ RanToCompletion =>
              /\ avail = 0
              /\ stdout = Stream(nread)
              /\ flushed = nread

\* A command printed two bursts, all of it was displayed, and it returned Ok.
C13_Witness ==
    /\ RanToCompletion
    /\ bursts = 2
    /\ Len(stdout) > 32
    /\ flushed = Len(stdout)

-----------------------------------------------------------------------------
(* execute_command: the end of a command *)

\* The calls of the log, the arrivals of interrupts left out.
Calls(log) == SelectSeq(log, LAMBDA ev : ev # "interrupt")

\* C14: however the poll loop was left (the remote side signalled
\* end-of-output, or an interrupt made the program close the channel),
\* execute_command waits for the remote close and only then reads the exit
\* status: the status is never read before that wait has returned, and on
\* the interrupt path too a nonzero status makes the command an error.
C14_WaitCloseThenExitStatus ==
    CommandLog =>
        /\ \A j \in 1..Len(Calls(chan_log)) :
              Calls(chan_log)[j] = "exit_status" =>
                  /\ j > 1
                  /\ Calls(chan_log)[j - 1] = "wait_close"
        /\ (pc = "execute_command" /\ ec_pc = "exit_status") =>
              /\ Calls(chan_log)[Len(Calls(chan_log))] = "wait_close"
              /\ remote_closed
        /\ Has(chan_log, "wait_close") =>
              \/ ~Has(chan_log, "detect") /\ remote_eof /\ avail = 0
              \/ Has(chan_log, "detect") /\ Has(chan_log, "close")
        /\ (pc = "execute_command" /\ ec_pc = "wait_close") =>
              \/ ~Has(chan_log, "detect") /\ remote_eof /\ avail = 0
              \/ Has(chan_log, "detect") /\ Has(chan_log, "close")
        /\ (Has(chan_log, "exit_status") /\ remote_exit # 0) =>
              /\ LastReturned("Err")
              /\ Ended
              /\ error.kind = "exit"
              /\ error.exit_code = remote_exit

\* A command was interrupted and closed, the wait for the remote close
\* returned, and the nonzero status read after it made the command fail.
C14_Witness ==
    /\ CommandLog
    /\ Has(chan_log, "detect")
    /\ Calls(chan_log)[Len(Calls(chan_log))] = "exit_status"
    /\ remote_exit = 7
    /\ error.kind = "exit"
    /\ Ended

-----------------------------------------------------------------------------
(* execute_command: the poll loop copies the stream *)

\* The poll loop was left because the loop test found end-of-output.
LoopEndedAtEof ==
    /\ ~Has(chan_log, "detect")
    /\ \/ pc = "execute_command" /\ ec_pc \in {"wait_close", "exit_status"}
       \/ Has(chan_log, "wait_close")

\* C15: what the poll loop writes to standard output is what it read from
\* the merged remote stream, byte for byte and in order, nothing dropped and
\* nothing twice; a read hands over at most 32 bytes, and they are written
\* and flushed before the next read starts; without an interrupt the loop is
\* left only when the remote side has signalled end-of-output and all of the
\* output was read; and when an interrupt is detected, the bytes read in that
\* iteration were written before the channel is closed.
C15_StreamCopied ==
    CommandLog =>
        /\ stdout = Stream(Len(stdout))
        /\ Len(stdout) <= nread
        /\ amount <= 32
        /\ (pc = "execute_command" /\ ec_pc = "write_all") =>
              /\ Len(buf) = 32
              /\ \A i \in 1..amount : buf[i] = Len(stdout) + i
              /\ nread = Len(stdout) + amount
        /\ (pc = "execute_command" /\ ec_pc \in {"eof_test", "read"}) =>
              /\ Len(stdout) = nread
              /\ flushed = nread
        /\ LoopEndedAtEof =>
              /\ remote_eof
              /\ avail = 0
              /\ stdout = Stream(nread)
        /\ Has(chan_log, "detect") =>
              /\ Len(stdout) = nread
              /\ flushed = nread

\* An interrupt was detected in an iteration that had read one byte after a
\* full chunk; the byte was on standard output when the channel was closed.
C15_Witness ==
    /\ CommandLog
    /\ Has(chan_log, "detect")
    /\ Has(chan_log, "close")
    /\ amount = 1
    /\ stdout = Stream(33)
    /\ flushed = 33

-----------------------------------------------------------------------------
(* Channels on the session *)

\* A call of the workflow is at the statement that opens its channel.
AboutToOpen ==
    \/ pc = "execute_command" /\ ec_pc = "channel_session"
    \/ pc = "upload_file" /\ up_pc = "scp_send"

\* C16: at most one channel is open on the session at any point of a run.
\* A command or an upload opens its channel only when the channel of the
\* step before it is gone (that step returned, or it failed and the run
\* ended), so no two of them are in flight at the same time.
C16_OneChannel ==
    /\ open_channels \in {0, 1}
    /\ open_channels = (IF channel = "none" THEN 0 ELSE 1)
    /\ AboutToOpen => open_channels = 0
    /\ pc = "workflow" => open_channels = 0
    /\ (Ended /\ exit_code \in {0, 1}) => open_channels = 0
    /\ ~(pc = "execute_command" /\ up_pc # "idle")
    /\ ~(pc = "upload_file" /\ ec_pc # "idle")
    /\ Len(issued) <= Len(results) + 1

\* The upload of a production run has its channel open, the channel of the
\* stop command before it being gone.
C16_Witness ==
    /\ args_production
    /\ pc = "upload_file"
    /\ Len(results) = 1
    /\ Has(chan_log, "scp_send")
    /\ open_channels = 1

-----------------------------------------------------------------------------
(* The Signals of execute_command *)

Count(log, event) == Cardinality(Positions(log, event))

\* What holds of the watcher in every state.
WatcherScoped ==
    /\ watcher # "none" =>
          /\ pc = "execute_command"
          /\ ec_pc # "signals_new"
          /\ handler_installed
    /\ (pc = "execute_command" /\ ec_pc = "signals_new") =>
          /\ watcher = "none"
          /\ chan_log = << >>
    /\ Count(chan_log, "detect") <= 1
    /\ Count(chan_log, "detect") <= Count(chan_log, "interrupt")
    /\ watcher = "pending" <=>
          /\ pc = "execute_command"
          /\ Count(chan_log, "interrupt") > Count(chan_log, "detect")
    /\ \A d \in Positions(chan_log, "detect") :
          \E i \in Positions(chan_log, "interrupt") : i < d
    /\ exit_code = 130 =>
          /\ ~handler_installed
          /\ ~Has(chan_log, "exec")
          /\ \A i \in 1..Len(issued) : issued[i].kind # "command"

\* C17: the watcher of interrupts belongs to one call of execute_command.
\* Each call registers its own, with nothing pending; the watcher is gone
\* when the call returns, so an interrupt that one command detected (or that
\* arrived during it) is never seen by a later command; and while a watcher
\* is registered an interrupt does not end the process, it only makes the
\* watcher pending for the next check of the poll loop.
C17_WatcherPerCommand ==
    /\ []WatcherScoped
    /\ [][(watcher # "none" /\ pc' = "exited") => error' # NoError]_vars
    /\ [][(watcher = "idle" /\ watcher' = "pending") =>
              /\ pc' = pc /\ ec_pc' = ec_pc /\ exit_code' = exit_code
              /\ issued' = issued /\ results' = results /\ channel' = channel]_vars

\* The command before this one detected an interrupt; this command has its
\* own watcher, which has seen nothing.
C17_Witness ==
    /\ prev_cancelled
    /\ pc = "execute_command"
    /\ watcher = "idle"
    /\ Has(chan_log, "exec")
    /\ ~Has(chan_log, "interrupt")

-----------------------------------------------------------------------------
(* upload_file: the local file comes first *)

\* C18: upload_file opens the local file and reads all of it before it asks
\* for the remote file-copy channel.  When the file cannot be opened or read
\* the upload returns the error with no channel opened, no copy requested
\* and no byte sent.
C18_LocalFileFirst ==
    /\ UploadLog =>
          \A j \in 1..Len(chan_log) :
              chan_log[j] = "scp_send" =>
                  /\ j = 3
                  /\ chan_log[1] = "file_open"
                  /\ chan_log[2] = "read_to_end"
                  /\ transfer.size >= 0
    /\ (pc = "upload_file" /\ ~Has(chan_log, "read_to_end")) =>
          /\ up_pc \in {"file_open", "read_to_end"}
          /\ channel = "none"
          /\ open_channels = 0
          /\ transfer.sent = 0
          /\ Len(issued) = Len(results)
    /\ error.at \in {"file_open", "read_to_end"} =>
          /\ Ended
          /\ LastReturned("Err")
          /\ ~Has(chan_log, "scp_send")
          /\ channel = "none"
          /\ open_channels = 0
          /\ transfer.mode = -1 /\ transfer.length = -1
          /\ transfer.sent = 0
          /\ Len(issued) = Len(results) - 1
          /\ \A i \in 1..Len(issued) : Succeeded(i)

\* Reading the opened file failed: the upload ended there, nothing requested.
C18_Witness ==
    /\ Ended
    /\ error.at = "read_to_end"
    /\ chan_log = << "file_open" >>
    /\ issued = << >>
    /\ transfer.sent = 0

-----------------------------------------------------------------------------
(* Production deploy: stopping and starting the service *)

StopOp == Cmd(<< "sudo systemctl stop rss_r" >>)

StartOp == Cmd(<< "sudo systemctl start rss_r" >>)

\* A step after the stop and before the start has failed.
FailedBetween ==
    \E k \in 2..9 : k <= Len(results) /\ results[k].result = "Err"

StartGated ==
    args_production =>
        /\ Issued(StartOp) =>
              /\ issued[1] = StopOp
              /\ issued[10] = StartOp
              /\ \A k \in 1..9 : Succeeded(k)
        /\ (Succeeded(1) /\ FailedBetween) =>
              /\ issued[1] = StopOp
              /\ Ended
              /\ exit_code # 0
              /\ ~Issued(StartOp)

\* C19: in a production deploy, once the stop of the service has succeeded,
\* the start is issued only if every step between them succeeded (upload,
\* the two archive checks, the removal, the two extractions, the two
\* chowns); when one of them fails the run ends and the start is never
\* issued.
C19_StartOnlyAfterAllSteps ==
    /\ []StartGated
    /\ [][(args_production /\ Succeeded(1) /\ FailedBetween) =>
              (issued' = issued /\ pc' = "exited")]_vars

\* The removal of the static directory failed after the service was stopped:
\* the run ended with the service not started.
C19_Witness ==
    /\ args_production
    /\ Succeeded(1)
    /\ Len(results) = 5 /\ results[5].result = "Err"
    /\ Ended
    /\ ~Issued(StartOp)

-----------------------------------------------------------------------------
(* An interrupt and the rest of the workflow *)

\* The latest call was a command that detected an interrupt, closed the
\* channel and read the exit status.
CancelledAndRead ==
    /\ CommandLog
    /\ Has(chan_log, "detect")
    /\ Has(chan_log, "exit_status")

\* C20: an interrupt cancels the command of the step it arrives in and
\* nothing more.  What the workflow does next depends only on the exit
\* status read for the cancelled command: with status 0 the command returned
\* Ok and the workflow goes on to its next step, with a nonzero status the
\* run ends as after any failed step.
C20_CancelThenExitStatusDecides ==
    /\ CancelledAndRead =>
          /\ remote_exit = 0 =>
                /\ LastReturned("Ok")
                /\ results[Len(results)].exit = << 0 >>
                /\ error = NoError
                /\ pc = "workflow" => ENABLED workflow_step
                /\ Ended => (exit_code = 0 /\ Len(results) = Len(WorkflowOps))
          /\ remote_exit # 0 =>
                /\ LastReturned("Err")
                /\ results[Len(results)].exit = << remote_exit >>
                /\ Ended /\ exit_code = 1
                /\ error.kind = "exit"
                /\ Len(issued) = Len(results)
    /\ (prev_cancelled /\ pc \in {"execute_command", "upload_file"}) =>
          /\ step > 1
          /\ Len(results) = step - 1
          /\ results[step - 1] = [ result |-> "Ok", exit |-> << 0 >> ]
          /\ error = NoError

\* The first archive check of a production deploy was cancelled by an
\* interrupt and its exit status read as 0: the second check was issued.
C20_Witness ==
    /\ args_production
    /\ prev_cancelled
    /\ pc = "execute_command"
    /\ step = 4
    /\ Len(issued) = 4
    /\ issued[4].text[1] = "unzip -l '"

====
